---- MODULE Spec2Model ----
(***************************************************************************)
(* Model of util/azure/utils.go of asuffield/guard: the discovery of the   *)
(* cluster's API resources and of Azure's data actions, and their          *)
(* correlation into the OperationsMap (group -> resource -> verb ->        *)
(* DataAction).                                                            *)
(*                                                                         *)
(* Strings.  A Go string is modelled as a sequence of symbols.  A symbol   *)
(* is one of the separators "/" and "." or a word ("pods", "deploy",       *)
(* "ments", ...).  Where one of the names the model compares is a prefix   *)
(* of another in Go, its symbols are a prefix of the other's               *)
(* ("deployments" is <<"deploy", "ments">>, "events.k8s.io" starts with    *)
(* "events"), and every match prefix starts with the first word of the     *)
(* cluster type, which no name holds elsewhere: the substring test on      *)
(* symbols decides what strings.Contains decides on the characters.        *)
(***************************************************************************)
EXTENDS Naturals, Integers, Sequences, FiniteSets, TLC

VARIABLES pc, clusterType, environment, settings, err, apiResourcesList,
          response, operationsList, operationsMap, calls

vars == <<pc, clusterType, environment, settings, err, apiResourcesList,
          response, operationsList, operationsMap, calls>>

----------------------------------------------------------------------------
(* Bounds of the model. *)

\* The longest list of group-version entries the apiserver returns.
MaxGroups == 2

\* The longest list of operations handed to createOperationsMap.
MaxOps == 2

\* The longest "value" array of a Get Operations response.
MaxRecords == 2

----------------------------------------------------------------------------
(* Strings: package strings and package path of the Go library. *)

Slash == <<"/">>

\* The empty string.
Empty == <<>>

\* strings.Contains(s, substr)
Contains(s, substr) ==
    \E i \in 0..(Len(s) - Len(substr)) : SubSeq(s, i + 1, i + Len(substr)) = substr

\* The position of the first "/" of s, 0 when s holds none.
RECURSIVE IndexSlash(_, _)
IndexSlash(s, i) ==
    IF i > Len(s) THEN 0
    ELSE IF s[i] = "/" THEN i
    ELSE IndexSlash(s, i + 1)

\* strings.Split(s, "/"): the segments between the slashes; one (empty)
\* segment for the empty string.
RECURSIVE Split(_)
Split(s) ==
    LET i == IndexSlash(s, 1)
    IN  IF i = 0 THEN <<s>>
        ELSE <<SubSeq(s, 1, i - 1)>> \o Split(SubSeq(s, i + 1, Len(s)))

\* strings.Join(segs, "/")
RECURSIVE JoinSlash(_)
JoinSlash(segs) ==
    IF segs = <<>> THEN Empty
    ELSE IF Len(segs) = 1 THEN segs[1]
    ELSE segs[1] \o Slash \o JoinSlash(Tail(segs))

\* The segments path.Clean keeps: empty and "." segments are dropped, a
\* ".." drops the segment before it (kept when there is none and the path
\* is not rooted).
RECURSIVE CleanSegs(_, _, _)
CleanSegs(segs, acc, rooted) ==
    IF segs = <<>> THEN acc
    ELSE LET seg == Head(segs)
             rest == Tail(segs)
         IN  IF seg = Empty \/ seg = <<".">>
                THEN CleanSegs(rest, acc, rooted)
             ELSE IF seg = <<".", ".">>
                THEN IF acc # <<>> /\ acc[Len(acc)] # <<".", ".">>
                        THEN CleanSegs(rest, SubSeq(acc, 1, Len(acc) - 1), rooted)
                     ELSE IF rooted
                        THEN CleanSegs(rest, acc, rooted)
                     ELSE CleanSegs(rest, Append(acc, seg), rooted)
             ELSE CleanSegs(rest, Append(acc, seg), rooted)

\* path.Clean(p)
Clean(p) ==
    IF p = Empty THEN <<".">>
    ELSE LET rooted == p[1] = "/"
             kept   == CleanSegs(Split(p), <<>>, rooted)
         IN  IF rooted THEN Slash \o JoinSlash(kept)
             ELSE IF kept = <<>> THEN <<".">>
             ELSE JoinSlash(kept)

\* path.Join(a, b): empty elements are ignored, the result is cleaned, and
\* the join of empty elements only is the empty string.
PathJoin(a, b) ==
    IF a = Empty /\ b = Empty THEN Empty
    ELSE IF a = Empty THEN Clean(b)
    ELSE Clean(a \o Slash \o b)

----------------------------------------------------------------------------
(* The constants of utils.go. *)

ManagedClusters == <<"Microsoft", ".", "ContainerService", "/", "managedClusters">>

Fleets == <<"Microsoft", ".", "ContainerService", "/", "fleets">>

ConnectedClusters == <<"Microsoft", ".", "Kubernetes", "/", "connectedClusters">>

\* fmt.Sprintf(OperationsEndpointFormatARC, base)
OperationsEndpointFormatARC(base) ==
    base \o <<"/providers/Microsoft.Kubernetes/operations?api-version=2021-10-01">>

\* fmt.Sprintf(OperationsEndpointFormatAKS, base)
OperationsEndpointFormatAKS(base) ==
    base \o <<"/providers/Microsoft.ContainerService/operations?api-version=2018-10-31">>

\* The core api group's label.
CoreGroup == <<"v1">>

Action == <<"action">>

----------------------------------------------------------------------------
(* The OperationsMap: Go maps as functions, the empty map the function of  *)
(* the empty domain.                                                       *)

\* NewOperationsMap(), NewResourceAndVerbMap(), NewVerbAndActionsMap()
NewMap == <<>>

\* m[k] = v
Put(m, k, v) == [x \in (DOMAIN m) \cup {k} |-> IF x = k THEN v ELSE m[x]]

\* A DataAction whose IsNamespacedResource is left at its zero value.
DataAction_FlagNotCopied(id, namespaced) ==
    [Id |-> id, IsDataAction |-> TRUE, IsNamespacedResource |-> FALSE]

\* DataAction{ActionInfo{Id, IsDataAction: true}, IsNamespacedResource}
DataAction(id, namespaced) ==
    [Id |-> id, IsDataAction |-> TRUE, IsNamespacedResource |-> namespaced]

----------------------------------------------------------------------------
(* createOperationsMap, utils.go 236-317. *)

\* The api group of a group-version entry: "v1" for the core group.
GroupOf(groupVersion) ==
    IF groupVersion # Empty /\ groupVersion # <<"v1">>
        THEN Split(groupVersion)[1]
    ELSE CoreGroup

\* createOperationsMap without the skip of subresources.
IsSubresource_Never(name) == FALSE

\* A resource name with a "/" names a subresource, which is skipped.
IsSubresource(name) == Contains(name, Slash)

\* The match prefix: clusterType[/group]/resourceName.
ActionIdOf(ct, group, resourceName) ==
    LET prefix == IF group # CoreGroup THEN PathJoin(ct, group) ELSE ct
    IN  PathJoin(prefix, resourceName)

\* createOperationsMap without the validation after strings.Contains.
SameGroupOrResource_Unchecked(group, resourceName, opNameArr) == TRUE

\* The validation after strings.Contains: segment 2 of the operation's name
\* (the third, counted from 1) is the group, or the resource for the core
\* group.
SameGroupOrResource(group, resourceName, opNameArr) ==
    IF group # CoreGroup
        THEN group = opNameArr[3]
    ELSE resourceName = opNameArr[3]

\* The verb taken as the last segment, "action" too.
VerbOf_LastSegment(opNameArr) == opNameArr[Len(opNameArr)]

\* The verb: the last segment, or "<second to last>/action".
VerbOf(opNameArr) ==
    LET verb == opNameArr[Len(opNameArr)]
    IN  IF verb = Action
            THEN PathJoin(opNameArr[Len(opNameArr) - 1], opNameArr[Len(opNameArr)])
        ELSE verb

\* An insertion that keeps the record a triple already holds.
Insert_KeepFirst(m, group, resourceName, verb, da) ==
    IF /\ group \in DOMAIN m
       /\ resourceName \in DOMAIN m[group]
       /\ verb \in DOMAIN m[group][resourceName]
        THEN m
    ELSE LET m1 == IF group \in DOMAIN m THEN m ELSE Put(m, group, NewMap)
             m2 == IF resourceName \in DOMAIN m1[group]
                       THEN m1
                   ELSE Put(m1, group, Put(m1[group], resourceName, NewMap))
         IN  Put(m2, group,
                 Put(m2[group], resourceName, Put(m2[group][resourceName], verb, da)))

\* operationsMap[group][resourceName][verb] = da, the two outer maps made
\* when not found.
Insert(m, group, resourceName, verb, da) ==
    LET m1 == IF group \in DOMAIN m THEN m ELSE Put(m, group, NewMap)
        m2 == IF resourceName \in DOMAIN m1[group]
                  THEN m1
              ELSE Put(m1, group, Put(m1[group], resourceName, NewMap))
    IN  Put(m2, group,
            Put(m2[group], resourceName, Put(m2[group][resourceName], verb, da)))

\* The result of a run that went on to its end, and of one that stopped in
\* a runtime panic (index out of range).
Returned(m) == [panic |-> FALSE, operationsMap |-> m]

Panicked(m) == [panic |-> TRUE, operationsMap |-> m]

\* The body of the loop over operationsList, for one operation.
MatchOperation(m, operation, group, apiResource, actionId) ==
    IF ~Contains(operation.Name, actionId) THEN Returned(m)
    ELSE LET opNameArr == Split(operation.Name)
         IN  IF Len(opNameArr) < 3 THEN Panicked(m)
             ELSE IF ~SameGroupOrResource(group, apiResource.Name, opNameArr)
                THEN Returned(m)
             ELSE Returned(Insert(m, group, apiResource.Name, VerbOf(opNameArr),
                                  DataAction(operation.Name, apiResource.Namespaced)))

\* for _, operation := range operationsList
RECURSIVE ScanOperations(_, _, _, _, _)
ScanOperations(m, ops, group, apiResource, actionId) ==
    IF ops = <<>> THEN Returned(m)
    ELSE LET r == MatchOperation(m, Head(ops), group, apiResource, actionId)
         IN  IF r.panic THEN r
             ELSE ScanOperations(r.operationsMap, Tail(ops), group, apiResource, actionId)

\* for _, apiResource := range resList.APIResources
RECURSIVE ScanResources(_, _, _, _, _)
ScanResources(m, apiResources, group, ops, ct) ==
    IF apiResources = <<>> THEN Returned(m)
    ELSE LET apiResource == Head(apiResources)
             r == IF IsSubresource(apiResource.Name) THEN Returned(m)
                  ELSE ScanOperations(m, ops, group, apiResource,
                                      ActionIdOf(ct, group, apiResource.Name))
         IN  IF r.panic THEN r
             ELSE ScanResources(r.operationsMap, Tail(apiResources), group, ops, ct)

\* for _, resList := range apiResourcesList
RECURSIVE ScanResourceLists(_, _, _, _)
ScanResourceLists(m, resLists, ops, ct) ==
    IF resLists = <<>> THEN Returned(m)
    ELSE LET resList == Head(resLists)
             r == IF Len(resList.APIResources) = 0 THEN Returned(m)
                  ELSE ScanResources(m, resList.APIResources,
                                     GroupOf(resList.GroupVersion), ops, ct)
         IN  IF r.panic THEN r
             ELSE ScanResourceLists(r.operationsMap, Tail(resLists), ops, ct)

createOperationsMap(resLists, ops, ct) == ScanResourceLists(NewMap, resLists, ops, ct)

----------------------------------------------------------------------------
(* The inputs. *)

\* Every sequence over S of at most n elements.
SeqsUpTo(S, n) == UNION {[1..k -> S] : k \in 0..n}

Pods == <<"pods">>

Events == <<"events">>

Deploy == <<"deploy">>

DeployScale == <<"deploy", "/", "scale">>

Apps == <<"apps">>

EventsK8sIo == <<"events", ".", "k8s", ".", "io">>

APIResource(name, namespaced) == [Name |-> name, Namespaced |-> namespaced]

APIResourceList(groupVersion, apiResources) ==
    [GroupVersion |-> groupVersion, APIResources |-> apiResources]

\* The group-version entries of a discovery answer: the core group under
\* both of its names, and two named groups, one under two versions and with
\* a subresource.
APIResourceLists ==
    { APIResourceList(<<"v1">>, <<APIResource(Pods, TRUE), APIResource(Events, FALSE)>>),
      APIResourceList(Empty, <<APIResource(Pods, FALSE)>>),
      APIResourceList(Apps \o Slash \o <<"v1">>,
                      <<APIResource(Deploy, TRUE), APIResource(DeployScale, TRUE)>>),
      APIResourceList(Apps \o Slash \o <<"v1", "beta1">>, <<APIResource(Deploy, FALSE)>>),
      APIResourceList(EventsK8sIo \o Slash \o <<"v1">>, <<APIResource(Events, TRUE)>>) }

\* Entries a discovery answer should not hold and may: one without
\* resources, and one whose resource has no name.
OddAPIResourceLists ==
    { APIResourceList(<<"v1">>, <<APIResource(Pods, TRUE)>>),
      APIResourceList(Apps \o Slash \o <<"v1">>, <<>>),
      APIResourceList(<<"v1">>, <<APIResource(Empty, FALSE)>>) }

\* A cluster-type tag NewDiscoverResourcesSettings does not know.
OtherClusterType == <<"Other">>

\* The names of the operations of a Get Operations answer.
OperationNames ==
    { ConnectedClusters \o Slash \o Pods \o <<"/", "read">>,
      ConnectedClusters \o Slash \o Pods \o <<"/", "restart", "/", "action">>,
      ConnectedClusters \o Slash \o Pods \o <<"/", "/", "action">>,
      ConnectedClusters \o Slash \o EventsK8sIo \o Slash \o Events \o <<"/", "read">>,
      ConnectedClusters \o Slash \o Apps \o Slash \o <<"deploy", "ments", "/", "read">>,
      ConnectedClusters \o Slash \o Apps \o Slash \o DeployScale \o <<"/", "read">> }

\* Names of fewer than three segments, and the names about them.
ShortOperationNames ==
    { ConnectedClusters,
      ConnectedClusters \o Slash \o Pods \o <<"/", "read">>,
      OtherClusterType \o Slash \o Pods,
      OtherClusterType \o Slash \o Pods \o <<"/", "read">> }

\* Operation{Name, IsDataAction}: IsDataAction is a *bool, "nil" when the
\* field is absent or null.
Operation(name, isDataAction) == [Name |-> name, IsDataAction |-> isDataAction]

----------------------------------------------------------------------------
(* Errors: nil is the empty chain, errors.Wrap puts its message in front.  *)

NoError == <<>>

\* errors.Errorf / errors.New
NewError(message) == <<message>>

\* errors.Wrap(cause, message), of a cause that is not nil
Wrap(cause, message) == <<message>> \o cause

----------------------------------------------------------------------------
(* NewDiscoverResourcesSettings, utils.go 165-198. *)

\* azure.Environment, of which the ResourceManagerEndpoint is used.
Environment(name, resourceManagerEndpoint) ==
    [Name |-> name, ResourceManagerEndpoint |-> resourceManagerEndpoint]

\* azure.PublicCloud
PublicCloud == Environment(<<"AzurePublicCloud">>, <<"https://management.azure.com/">>)

ChinaCloud == Environment(<<"AzureChinaCloud">>, <<"https://management.chinacloudapi.cn/">>)

NoEnvironment == Environment(Empty, Empty)

\* The environments azure.EnvironmentFromName knows, of those the model
\* names.
KnownEnvironments == {PublicCloud, ChinaCloud}

\* The environment names the model passes: none, two known ones and one
\* that azure.EnvironmentFromName does not know.
EnvironmentNames == {Empty, <<"AzurePublicCloud">>, <<"AzureChinaCloud">>, <<"AzureMoonCloud">>}

\* azure.EnvironmentFromName(name)
EnvironmentFromName(name) ==
    IF \E e \in KnownEnvironments : e.Name = name
        THEN [env |-> CHOOSE e \in KnownEnvironments : e.Name = name, err |-> NoError]
    ELSE [env |-> NoEnvironment,
          err |-> NewError(<<"autorest/azure: There is no cloud environment matching the name ">>
                           \o name)]

\* The cluster types the switch of NewDiscoverResourcesSettings knows.
SupportedClusterTypes == {ConnectedClusters, ManagedClusters, Fleets}

\* The cluster-type tags the model passes.
ClusterTypeTags == SupportedClusterTypes \cup {OtherClusterType}

\* *DiscoverResourcesSettings; the fields the model reads.
Settings(ct, env, endpoint) ==
    [nil |-> FALSE, clusterType |-> ct, environment |-> env, operationsEndpoint |-> endpoint]

NilSettings ==
    [nil |-> TRUE, clusterType |-> Empty, environment |-> NoEnvironment,
     operationsEndpoint |-> Empty]

UnsupportedClusterType(ct) ==
    NewError(<<"Failed to create endpoint for Get Operations call. Cluster type ">>
             \o ct \o <<" is not supported.">>)

\* A switch whose default case takes the AKS endpoint.
OperationsEndpointOf_DefaultAKS(ct, env) ==
    IF ct = ConnectedClusters
        THEN [endpoint |-> OperationsEndpointFormatARC(env.ResourceManagerEndpoint),
              err |-> NoError]
    ELSE [endpoint |-> OperationsEndpointFormatAKS(env.ResourceManagerEndpoint),
          err |-> NoError]

\* switch clusterType: the operations endpoint, or the error of the default
\* case.
OperationsEndpointOf(ct, env) ==
    IF ct = ConnectedClusters
        THEN [endpoint |-> OperationsEndpointFormatARC(env.ResourceManagerEndpoint),
              err |-> NoError]
    ELSE IF ct = ManagedClusters \/ ct = Fleets
        THEN [endpoint |-> OperationsEndpointFormatAKS(env.ResourceManagerEndpoint),
              err |-> NoError]
    ELSE [endpoint |-> Empty, err |-> UnsupportedClusterType(ct)]

\* NewDiscoverResourcesSettings(clusterType, environment, ...): the
\* environment is resolved first, then the endpoint.
NewDiscoverResourcesSettings(ct, environmentName) ==
    LET named == IF environmentName # Empty
                    THEN EnvironmentFromName(environmentName)
                 ELSE [env |-> PublicCloud, err |-> NoError]
    IN  IF named.err # NoError
            THEN [settings |-> NilSettings,
                  err |-> Wrap(named.err, <<"Failed to parse environment for Azure.">>)]
        ELSE LET op == OperationsEndpointOf(ct, named.env)
             IN  IF op.err # NoError
                     THEN [settings |-> NilSettings, err |-> op.err]
                 ELSE [settings |-> Settings(ct, named.env, op.endpoint), err |-> NoError]

----------------------------------------------------------------------------
(* fetchApiResources (319-352) and fetchDataActionsList (354-425): the     *)
(* cluster and Azure answer what they choose to.                           *)

\* The errors fetchApiResources returns.
FetchApiResourcesErrors ==
    { Wrap(NewError(<<"invalid configuration">>), <<"Error building kubeconfig">>),
      Wrap(NewError(<<"invalid configuration">>), <<"Error building kubernetes clientset">>),
      NewError(<<"unable to retrieve the complete list of server APIs">>) }

\* The answers of ServerPreferredResources.
DiscoveryAnswers ==
    SeqsUpTo({ APIResourceList(<<"v1">>, <<APIResource(Pods, TRUE), APIResource(Events, FALSE)>>),
               APIResourceList(Apps \o Slash \o <<"v1">>,
                               <<APIResource(Deploy, TRUE), APIResource(DeployScale, TRUE)>>) },
             MaxGroups)

\* The errors fetchDataActionsList returns.
FetchDataActionsListErrors ==
    { Wrap(NewError(<<"invalid URL">>), <<"Failed to create request for Get Operations call.">>),
      Wrap(NewError(<<"token refused">>),
           <<"Error getting authorization headers for Get Operations call.">>),
      Wrap(NewError(<<"connection refused">>),
           <<"Failed to send request for Get Operations call.">>),
      Wrap(NewError(<<"unexpected EOF">>), <<"Error in reading response body">>),
      NewError(<<"Request failed with status code">>),
      Wrap(NewError(<<"invalid character">>), <<"Failed to decode response">>) }

\* The "value" arrays of the decoded OperationList: isDataAction true,
\* false, and absent or null.
ResponseValues ==
    SeqsUpTo({ Operation(n, d) :
                 n \in { ConnectedClusters \o Slash \o Pods \o <<"/", "read">>,
                         ManagedClusters \o Slash \o Pods \o <<"/", "read">>,
                         ConnectedClusters \o Slash \o Apps \o Slash \o Deploy
                             \o <<"/", "restart", "/", "action">> },
                 d \in {"true", "false", "nil"} },
             MaxRecords)

\* The body not yet decoded, and the decoded OperationList.
NoResponse == [decoded |-> FALSE, Value |-> <<>>]

OperationList(value) == [decoded |-> TRUE, Value |-> value]

\* The filter's result, and the nil pointer dereference that ends it.
Filtered(ops) == [panic |-> FALSE, finalOperations |-> ops]

NilDereference == [panic |-> TRUE, finalOperations |-> <<>>]

\* for _, op := range operationsList.Value {
\*     if *op.IsDataAction && strings.Contains(op.Name, settings.clusterType)
RECURSIVE FilterDataActions(_, _, _)
FilterDataActions(finalOperations, value, ct) ==
    IF value = <<>> THEN Filtered(finalOperations)
    ELSE LET op == Head(value)
         IN  IF op.IsDataAction = "nil" THEN NilDereference
             ELSE IF op.IsDataAction = "true" /\ Contains(op.Name, ct)
                THEN FilterDataActions(Append(finalOperations, op), Tail(value), ct)
             ELSE FilterDataActions(finalOperations, Tail(value), ct)

\* The record of a callee's return, in the order of the calls.
Call(fn, result) == [fn |-> fn, result |-> result]

----------------------------------------------------------------------------
(* The program: NewDiscoverResourcesSettings, then DiscoverResources       *)
(* (207-234).                                                              *)

Init ==
    /\ pc = "start"
    /\ clusterType = Empty
    /\ environment = Empty
    /\ settings = NilSettings
    /\ err = NoError
    /\ apiResourcesList = <<>>
    /\ response = NoResponse
    /\ operationsList = <<>>
    /\ operationsMap = NewMap
    /\ calls = <<>>

\* settings, err := NewDiscoverResourcesSettings(clusterType, environment, ...)
Configure ==
    /\ pc = "start"
    /\ \E ct \in ClusterTypeTags, name \in EnvironmentNames :
          LET r == NewDiscoverResourcesSettings(ct, name)
          IN  /\ clusterType' = ct
              /\ environment' = name
              /\ settings' = r.settings
              /\ err' = r.err
              /\ pc' = IF r.err = NoError THEN "fetchApiResources" ELSE "failed"
    /\ UNCHANGED <<apiResourcesList, response, operationsList, operationsMap, calls>>

\* A DiscoverResources that goes on to the data actions after a failed
\* fetchApiResources.
FetchApiResources_GoesOn ==
    /\ pc = "fetchApiResources"
    /\ \/ \E e \in FetchApiResourcesErrors :
             /\ calls' = Append(calls, Call("fetchApiResources", "error"))
             /\ pc' = "fetchDataActionsList"
             /\ UNCHANGED <<apiResourcesList, err, operationsMap>>
       \/ \E answer \in DiscoveryAnswers :
             /\ calls' = Append(calls, Call("fetchApiResources", "ok"))
             /\ apiResourcesList' = answer
             /\ pc' = "fetchDataActionsList"
             /\ UNCHANGED <<err, operationsMap>>
    /\ UNCHANGED <<clusterType, environment, settings, response, operationsList>>

\* apiResourcesList, err := fetchApiResources(settings); an error is
\* returned wrapped, with the empty OperationsMap{}.
FetchApiResources ==
    /\ pc = "fetchApiResources"
    /\ \/ \E e \in FetchApiResourcesErrors :
             /\ calls' = Append(calls, Call("fetchApiResources", "error"))
             /\ err' = Wrap(e, <<"Failed to fetch list of api-resources from apiserver.">>)
             /\ operationsMap' = NewMap
             /\ pc' = "done"
             /\ UNCHANGED apiResourcesList
       \/ \E answer \in DiscoveryAnswers :
             /\ calls' = Append(calls, Call("fetchApiResources", "ok"))
             /\ apiResourcesList' = answer
             /\ pc' = "fetchDataActionsList"
             /\ UNCHANGED <<err, operationsMap>>
    /\ UNCHANGED <<clusterType, environment, settings, response, operationsList>>

\* operationsList, err := fetchDataActionsList(settings); an error is
\* returned wrapped, with the empty OperationsMap{}; the dereference of a
\* nil IsDataAction ends the goroutine.
FetchDataActionsList ==
    /\ pc = "fetchDataActionsList"
    /\ \/ \E e \in FetchDataActionsListErrors :
             /\ calls' = Append(calls, Call("fetchDataActionsList", "error"))
             /\ err' = Wrap(e, <<"Failed to fetch operations from Azure.">>)
             /\ operationsMap' = NewMap
             /\ pc' = "done"
             /\ UNCHANGED <<response, operationsList>>
       \/ \E value \in ResponseValues :
             LET r == FilterDataActions(<<>>, value, settings.clusterType)
             IN  /\ response' = OperationList(value)
                 /\ calls' = Append(calls, Call("fetchDataActionsList",
                                                IF r.panic THEN "panic" ELSE "ok"))
                 /\ operationsList' = r.finalOperations
                 /\ pc' = IF r.panic THEN "panic" ELSE "createOperationsMap"
                 /\ UNCHANGED <<err, operationsMap>>
    /\ UNCHANGED <<clusterType, environment, settings, apiResourcesList>>

----------------------------------------------------------------------------
(* createOperationsMap as a function of its three arguments. *)

InitMap ==
    /\ pc = "createOperationsMap"
    /\ clusterType = ConnectedClusters
    /\ apiResourcesList \in SeqsUpTo(APIResourceLists, MaxGroups)
    /\ operationsList \in SeqsUpTo({Operation(n, "true") : n \in OperationNames}, MaxOps)
    /\ operationsMap = NewMap
    /\ environment = Empty
    /\ settings = NilSettings
    /\ err = NoError
    /\ response = NoResponse
    /\ calls = <<>>

\* operationsMap = createOperationsMap(apiResourcesList, operationsList,
\* settings.clusterType); an index out of range ends the goroutine.  The
\* variable clusterType is the argument: settings.clusterType in
\* DiscoverResources.
CreateOperationsMap ==
    /\ pc = "createOperationsMap"
    /\ LET r == createOperationsMap(apiResourcesList, operationsList, clusterType)
       IN  /\ pc' = IF r.panic THEN "panic" ELSE "done"
           /\ operationsMap' = IF r.panic THEN operationsMap ELSE r.operationsMap
           /\ calls' = Append(calls, Call("createOperationsMap",
                                          IF r.panic THEN "panic" ELSE "ok"))
    /\ UNCHANGED <<clusterType, environment, settings, err, apiResourcesList,
                   response, operationsList>>

NextMap == CreateOperationsMap

SpecMap == InitMap /\ [][NextMap]_vars

\* createOperationsMap on any cluster-type tag, odd resource lists and
\* short operation names.
InitShort ==
    /\ pc = "createOperationsMap"
    /\ clusterType \in ClusterTypeTags
    /\ apiResourcesList \in SeqsUpTo(OddAPIResourceLists, MaxGroups)
    /\ operationsList \in SeqsUpTo({Operation(n, "true") : n \in ShortOperationNames}, MaxOps)
    /\ operationsMap = NewMap
    /\ environment = Empty
    /\ settings = NilSettings
    /\ err = NoError
    /\ response = NoResponse
    /\ calls = <<>>

SpecShort == InitShort /\ [][NextMap]_vars

Next == Configure \/ FetchApiResources \/ FetchDataActionsList \/ CreateOperationsMap

Spec == Init /\ [][Next]_vars

----------------------------------------------------------------------------
(* What the claims speak of. *)

\* The (group, resource, verb) triples of a map.
Triples(m) ==
    UNION { UNION { { <<g, r, v>> : v \in DOMAIN m[g][r] } : r \in DOMAIN m[g] } :
            g \in DOMAIN m }

\* The DataAction at a triple.
At(m, t) == m[t[1]][t[2]][t[3]]

Has(m, t) ==
    /\ t[1] \in DOMAIN m
    /\ t[2] \in DOMAIN m[t[1]]
    /\ t[3] \in DOMAIN m[t[1]][t[2]]

\* The (entry, resource, operation) positions of the arguments of
\* createOperationsMap, in the order the three loops visit them.
Positions ==
    UNION { { <<i, j, k>> : j \in 1..Len(apiResourcesList[i].APIResources),
                            k \in 1..Len(operationsList) } :
            i \in 1..Len(apiResourcesList) }

ResourceAt(p) == apiResourcesList[p[1]].APIResources[p[2]]

GroupAt(p) == GroupOf(apiResourcesList[p[1]].GroupVersion)

OperationAt(p) == operationsList[p[3]]

\* The positions whose operation is stored for their resource.
Matching ==
    { p \in Positions :
        /\ ~Contains(ResourceAt(p).Name, Slash)
        /\ Contains(OperationAt(p).Name,
                    ActionIdOf(clusterType, GroupAt(p), ResourceAt(p).Name))
        /\ Len(Split(OperationAt(p).Name)) >= 3
        /\ IF GroupAt(p) # CoreGroup
              THEN Split(OperationAt(p).Name)[3] = GroupAt(p)
           ELSE Split(OperationAt(p).Name)[3] = ResourceAt(p).Name }

TripleOf(p) == <<GroupAt(p), ResourceAt(p).Name, VerbOf(Split(OperationAt(p).Name))>>

RecordOf(p) ==
    [Id |-> OperationAt(p).Name, IsDataAction |-> TRUE,
     IsNamespacedResource |-> ResourceAt(p).Namespaced]

\* p is visited before q.
Before(p, q) ==
    \/ p[1] < q[1]
    \/ p[1] = q[1] /\ p[2] < q[2]
    \/ p[1] = q[1] /\ p[2] = q[2] /\ p[3] < q[3]

\* The last segment and the one before it.
LastSegment(name) == Split(name)[Len(Split(name))]

SecondToLastSegment(name) == Split(name)[Len(Split(name)) - 1]

EventsK8sIoRead ==
    ConnectedClusters \o Slash \o EventsK8sIo \o Slash \o Events \o <<"/", "read">>

----------------------------------------------------------------------------
(* C3 *)

\* C3: every record stored at [g][r][v] has an action id whose segment 2
\* is r when g is the core group "v1" and g when g is a named group; the
\* operation <clusterType>/events.k8s.io/events/read is never stored under
\* ["v1"]["events"].
C3_SegmentTwoIsGroupOrResource ==
    /\ \A t \in Triples(operationsMap) :
          LET segs == Split(At(operationsMap, t).Id)
          IN  /\ Len(segs) >= 3
              /\ IF t[1] = CoreGroup THEN segs[3] = t[2] ELSE segs[3] = t[1]
    /\ \A t \in Triples(operationsMap) :
          t[1] = CoreGroup /\ t[2] = Events => At(operationsMap, t).Id # EventsK8sIoRead

\* A core "events" resource met the events.k8s.io operation, whose name
\* holds the core match prefix, and the operation went to its own group.
C3_Witness ==
    /\ pc = "done"
    /\ clusterType = ConnectedClusters
    /\ \E i \in 1..Len(apiResourcesList) :
          /\ GroupOf(apiResourcesList[i].GroupVersion) = CoreGroup
          /\ \E j \in 1..Len(apiResourcesList[i].APIResources) :
                apiResourcesList[i].APIResources[j].Name = Events
    /\ \E k \in 1..Len(operationsList) :
          /\ operationsList[k].Name = EventsK8sIoRead
          /\ Contains(operationsList[k].Name, ActionIdOf(clusterType, CoreGroup, Events))
    /\ Has(operationsMap, <<EventsK8sIo, Events, <<"read">>>>)
    /\ ~Has(operationsMap, <<CoreGroup, Events, <<"read">>>>)

----------------------------------------------------------------------------
(* C4 *)

\* The verb the claim gives an operation's name.
ClaimedVerb(name) ==
    IF LastSegment(name) # Action THEN LastSegment(name)
    ELSE SecondToLastSegment(name) \o Slash \o Action

\* C4, as claimed: every record is stored under the last segment of its
\* identifier, or under "<second to last>/action" when that segment is
\* "action"; no record is stored under the bare verb "action".
C4_VerbAsClaimed ==
    \A t \in Triples(operationsMap) :
        /\ t[3] = ClaimedVerb(At(operationsMap, t).Id)
        /\ t[3] # Action

\* C4, amended: every record is stored under the last segment of its
\* identifier, or, when that segment is "action", under "<second to
\* last>/action", which path.Join makes the bare "action" when the second
\* to last segment is empty or ".".
C4_VerbIsPathJoin ==
    \A t \in Triples(operationsMap) :
        LET name == At(operationsMap, t).Id
        IN  IF LastSegment(name) # Action THEN t[3] = LastSegment(name)
            ELSE IF SecondToLastSegment(name) \in {Empty, <<".">>} THEN t[3] = Action
            ELSE t[3] = SecondToLastSegment(name) \o Slash \o Action

\* An identifier that ends in restart/action is stored under restart/action.
C4_Witness ==
    /\ pc = "done"
    /\ \E t \in Triples(operationsMap) :
          /\ t[3] = <<"restart", "/", "action">>
          /\ LastSegment(At(operationsMap, t).Id) = Action
          /\ SecondToLastSegment(At(operationsMap, t).Id) = <<"restart">>

----------------------------------------------------------------------------
(* C5 *)

\* C5: no resource key of the returned map holds a "/": a descriptor whose
\* name holds one contributes no entry.
C5_NoSubresourceKey ==
    \A t \in Triples(operationsMap) : ~Contains(t[2], Slash)

\* A subresource of a named group met an operation of that group that holds
\* its match prefix, and the map returned holds other entries.
C5_Witness ==
    /\ pc = "done"
    /\ operationsMap # NewMap
    /\ \E i \in 1..Len(apiResourcesList) :
          \E j \in 1..Len(apiResourcesList[i].APIResources) :
             LET group == GroupOf(apiResourcesList[i].GroupVersion)
                 name  == apiResourcesList[i].APIResources[j].Name
             IN  /\ Contains(name, Slash)
                 /\ group # CoreGroup
                 /\ \E k \in 1..Len(operationsList) :
                       /\ Contains(operationsList[k].Name,
                                   ActionIdOf(clusterType, group, name))
                       /\ Split(operationsList[k].Name)[3] = group

----------------------------------------------------------------------------
(* C9 *)

\* C9: when several (resource, operation) pairs map to one triple, the
\* returned map holds at that triple the record of the pair visited last:
\* its action id and its IsNamespacedResource.
C9_LastWriteWins ==
    pc = "done" =>
        LET matching == Matching
        IN  \A p \in matching :
                /\ \E q \in matching : q # p /\ TripleOf(q) = TripleOf(p)
                /\ \A q \in matching : TripleOf(q) = TripleOf(p) => ~Before(p, q)
                => /\ Has(operationsMap, TripleOf(p))
                   /\ At(operationsMap, TripleOf(p)) = RecordOf(p)

\* Two pairs with different records mapped to one triple.
C9_Witness ==
    /\ pc = "done"
    /\ \E p \in Matching, q \in Matching :
          /\ Before(p, q)
          /\ TripleOf(p) = TripleOf(q)
          /\ RecordOf(p).Id # RecordOf(q).Id
          /\ RecordOf(p).IsNamespacedResource # RecordOf(q).IsNamespacedResource
          /\ At(operationsMap, TripleOf(q)) = RecordOf(q)

----------------------------------------------------------------------------
(* C2 *)

\* The (entry, resource) positions of the resource list.
DescriptorPositions ==
    UNION { { <<i, j>> : j \in 1..Len(apiResourcesList[i].APIResources) } :
            i \in 1..Len(apiResourcesList) }

\* The positions of the core group's descriptors of resource r.
CoreDescriptors(r) ==
    { d \in DescriptorPositions :
        /\ GroupOf(apiResourcesList[d[1]].GroupVersion) = CoreGroup
        /\ apiResourcesList[d[1]].APIResources[d[2]].Name = r }

\* The core descriptor of r that the loops visit last.
LastCoreDescriptor(r) ==
    CHOOSE d \in CoreDescriptors(r) :
        \A e \in CoreDescriptors(r) : e[1] < d[1] \/ (e[1] = d[1] /\ e[2] <= d[2])

\* The verb of an operation named <clusterType>/r/<verb>, with a verb that
\* is one segment and not "action"; <<"/">> for any other name.
PlainVerb(name, r) ==
    LET prefix == clusterType \o Slash \o r \o Slash
        verb   == SubSeq(name, Len(prefix) + 1, Len(name))
    IN  IF /\ Len(name) >= Len(prefix)
           /\ SubSeq(name, 1, Len(prefix)) = prefix
           /\ ~Contains(verb, Slash)
           /\ verb # Action
            THEN verb
        ELSE Slash

\* The operation at k is the only one that maps to the triple t.
OnlyOperationFor(k, t) ==
    \A q \in Matching : TripleOf(q) = t => operationsList[q[3]].Name = operationsList[k].Name

\* What C2 asks of the map, for the core descriptor d of a top-level
\* resource and the operation at k, the flag being that of the descriptor
\* f.
C2_Stored(d, k, f) ==
    LET r    == apiResourcesList[d[1]].APIResources[d[2]].Name
        name == operationsList[k].Name
        t    == <<CoreGroup, r, PlainVerb(name, r)>>
    IN  /\ ~Contains(r, Slash)
        /\ PlainVerb(name, r) # Slash
        /\ OnlyOperationFor(k, t)
        => /\ Has(operationsMap, t)
           /\ At(operationsMap, t).Id = name
           /\ At(operationsMap, t).IsDataAction = TRUE
           /\ At(operationsMap, t).IsNamespacedResource
                 = apiResourcesList[f[1]].APIResources[f[2]].Namespaced

\* The descriptors of the entries of group-version "" or "v1".
CoreDescriptorPositions ==
    { d \in DescriptorPositions : apiResourcesList[d[1]].GroupVersion \in {Empty, <<"v1">>} }

\* C2, as claimed, for the cluster types the program supports: for every
\* core-group entry with a top-level resource r of namespaced flag n and
\* the only operation <clusterType>/r/<verb> of its triple, the returned
\* map holds ["v1"][r][verb] with the operation's name as action id,
\* IsDataAction true and IsNamespacedResource n.
C2_RecordAsClaimed ==
    pc = "done" /\ clusterType \in SupportedClusterTypes =>
        \A d \in CoreDescriptorPositions : \A k \in 1..Len(operationsList) :
            C2_Stored(d, k, d)

\* C2, amended: the same, with IsNamespacedResource the flag of the
\* core-group descriptor of r that comes last in the resource list (n when
\* r is described once).
C2_RecordOfLastDescriptor ==
    pc = "done" /\ clusterType \in SupportedClusterTypes =>
        \A d \in CoreDescriptorPositions : \A k \in 1..Len(operationsList) :
            C2_Stored(d, k, LastCoreDescriptor(apiResourcesList[d[1]].APIResources[d[2]].Name))

\* The core resource pods (namespaced) met .../pods/read and the map holds
\* the record.
C2_Witness ==
    /\ pc = "done"
    /\ clusterType = ConnectedClusters
    /\ \E d \in CoreDescriptorPositions : \E k \in 1..Len(operationsList) :
          /\ apiResourcesList[d[1]].APIResources[d[2]] = APIResource(Pods, TRUE)
          /\ operationsList[k].Name = ConnectedClusters \o Slash \o Pods \o <<"/", "read">>
          /\ LastCoreDescriptor(Pods) = d
          /\ OnlyOperationFor(k, <<CoreGroup, Pods, <<"read">>>>)
          /\ Has(operationsMap, <<CoreGroup, Pods, <<"read">>>>)
          /\ At(operationsMap, <<CoreGroup, Pods, <<"read">>>>)
                = [Id |-> operationsList[k].Name, IsDataAction |-> TRUE,
                   IsNamespacedResource |-> TRUE]

----------------------------------------------------------------------------
(* C7, C10 *)

\* C7: createOperationsMap ends without an index out of range, whatever
\* the cluster type, the resources and the operations, and an identifier of
\* fewer than 3 segments contributes no entry.
C7_NoIndexOutOfRange ==
    /\ pc # "panic"
    /\ \A t \in Triples(operationsMap) : Len(Split(At(operationsMap, t).Id)) >= 3

\* C10: every record stored at [g][r][v] with g a named group has an action
\* id whose segment 3, the one after the group, is r.
C10_SegmentThreeIsResource ==
    \A t \in Triples(operationsMap) :
        t[1] # CoreGroup =>
            LET segs == Split(At(operationsMap, t).Id)
            IN  Len(segs) >= 4 /\ segs[4] = t[2]

----------------------------------------------------------------------------
(* C1 *)

\* C1, as claimed: for a cluster-type tag that is not one of the three
\* supported ones, and any environment name, NewDiscoverResourcesSettings
\* returns no settings and the error of the unsupported cluster type.
C1_UnsupportedAsClaimed ==
    pc # "start" /\ clusterType \notin SupportedClusterTypes =>
        /\ settings = NilSettings
        /\ err = UnsupportedClusterType(clusterType)

\* C1, amended: for such a tag NewDiscoverResourcesSettings returns no
\* settings, and the error of the unsupported cluster type when the
\* environment name is empty or known; for a name that is not empty and not
\* known the error is the wrapped error of azure.EnvironmentFromName, which
\* is returned before the cluster type is looked at.
C1_UnsupportedUnlessUnknownEnvironment ==
    pc # "start" /\ clusterType \notin SupportedClusterTypes =>
        /\ settings = NilSettings
        /\ IF environment # Empty /\ EnvironmentFromName(environment).err # NoError
              THEN err = Wrap(EnvironmentFromName(environment).err,
                              <<"Failed to parse environment for Azure.">>)
           ELSE err = UnsupportedClusterType(clusterType)

\* An unsupported tag with a known environment was refused for its type.
C1_Witness ==
    /\ pc = "failed"
    /\ clusterType = OtherClusterType
    /\ environment = <<"AzureChinaCloud">>
    /\ settings = NilSettings
    /\ err = UnsupportedClusterType(OtherClusterType)

----------------------------------------------------------------------------
(* C6 *)

\* The operations of a response that are data actions of the cluster type,
\* an absent or null isDataAction taken as false.
DataActionsOf(value, ct) ==
    SelectSeq(value, LAMBDA op : op.IsDataAction = "true" /\ Contains(op.Name, ct))

\* C6: a decoded response with a record whose isDataAction is null or
\* absent does not crash fetchDataActionsList: the record is left out and
\* the others are filtered as usual.
C6_NilIsDataActionTolerated ==
    /\ response.decoded
    /\ \E i \in 1..Len(response.Value) : response.Value[i].IsDataAction = "nil"
    => /\ pc # "panic"
       /\ operationsList = DataActionsOf(response.Value, settings.clusterType)

----------------------------------------------------------------------------
(* C8 *)

FetchContexts ==
    [fetchApiResources |-> <<"Failed to fetch list of api-resources from apiserver.">>,
     fetchDataActionsList |-> <<"Failed to fetch operations from Azure.">>]

\* C8: fetchApiResources runs first; fetchDataActionsList is called only
\* after it has returned without error, createOperationsMap only after both
\* have; a failed fetch ends the call with a wrapped error and the empty
\* map; when both succeed the call returns the map of createOperationsMap
\* and no error.
C8_OrderAndShortCircuit ==
    /\ \A i \in 1..Len(calls) :
          /\ calls[i].fn = "fetchApiResources" => i = 1
          /\ calls[i].fn = "fetchDataActionsList" =>
                i = 2 /\ calls[1] = Call("fetchApiResources", "ok")
          /\ calls[i].fn = "createOperationsMap" =>
                /\ i = 3
                /\ calls[1] = Call("fetchApiResources", "ok")
                /\ calls[2] = Call("fetchDataActionsList", "ok")
          /\ calls[i].result = "error" =>
                /\ i = Len(calls)
                /\ pc = "done"
                /\ operationsMap = NewMap
                /\ Len(err) >= 2
                /\ err[1] = FetchContexts[calls[i].fn]
                /\ Tail(err) \in FetchApiResourcesErrors \cup FetchDataActionsListErrors
    /\ pc = "done" /\ (\A i \in 1..Len(calls) : calls[i].result = "ok") =>
          /\ Len(calls) = 3
          /\ err = NoError
          /\ operationsMap = createOperationsMap(apiResourcesList, operationsList,
                                                 settings.clusterType).operationsMap

\* fetchApiResources succeeded, fetchDataActionsList failed: the call is
\* over with a wrapped error, the empty map, and no correlation.
C8_Witness ==
    /\ pc = "done"
    /\ calls = <<Call("fetchApiResources", "ok"), Call("fetchDataActionsList", "error")>>
    /\ apiResourcesList # <<>>
    /\ err[1] = <<"Failed to fetch operations from Azure.">>
    /\ operationsMap = NewMap

====
